---- MODULE Spec2Model ----
(***************************************************************************)
(* Gesturine controller: the gesture detector (classification results,     *)
(* 5-sample history, 3-of-3 smoothing), the detection component that feeds *)
(* the detection service, the detection service (one key-repeat interval   *)
(* timer), the zustand store that pushes binding sets into the service,    *)
(* the key service of the renderer, the robot service of the main process  *)
(* (one key pulse as a sequence of robot calls) and the classifier         *)
(* (detectGesture on the landmarks of one hand).                           *)
(*                                                                         *)
(* A frame step is atomic: GestureDetector.processFrame contains no await, *)
(* so the detector call, the callbacks it triggers and the component's     *)
(* forEach run to completion before any timer tick or UI event.            *)
(***************************************************************************)
EXTENDS Integers, Sequences, FiniteSets, TLC

\* ------------------------------------------------------------------ values
\* JS null, JS undefined (a property the object does not have)
Null == "null"
Undefined == "undefined"
\* detectGesture returned null for a hand (no check cleared the threshold)
None == "none"
\* the classification of a hand whose landmark array has fewer than 21
\* points: detectGesture throws on it
Malformed == "malformed"
\* activeKeyInterval = null
NoTimer == 0

\* the gesture types the frames of the model are classified as (two of the
\* eight entries of gestureChecks)
GestureTypes == {"fist", "open_palm"}
\* every gesture type of gestureChecks
AllGestureTypes ==
  {"fist", "open_palm", "pointing", "peace_sign", "thumbs_up", "thumbs_down", "ok_sign", "rock_on"}
\* categoryName of a detected hand
HandLabels == {"Left", "Right"}
DefaultProfileNames == {"Gaming", "Productivity", "Custom"}
\* names given to addProfile in the model
ProfileNames == DefaultProfileNames \cup {"Work"}

\* numHands of the hand landmarker
NumHands == 2
\* maxHistory of updateGestureHistory
MaxHistory == 5
\* the slice(-3) window of smoothGestureDetection
StableWindow == 3

\* ------------------------------------------------------------------ bounds
\* frames of an observed run of the detector
MaxFrames == 6
\* characters of a key string
MaxKeyLen == 5
\* requests sent and not yet handled
MaxInFlight == 2

VARIABLES
  \* useGestureStore
  activeProfile, profiles, keybindings, isGestureServiceActive,
  \* GestureDetectionService
  activeGesture, activeKeyInterval, activeBindings, isServiceActive,
  \* the JS runtime's live interval timers: records [id, binding]
  timers,
  \* GestureDetector
  isProcessing, lastGesture, gestureHistory,
  \* what the last step did, in call order
  emitted,    \* triggerGestureCallback calls: [type, data]
  hgdCalls,   \* the component's handleGestureDetected calls: [gesture, hand, raw]
  timerOps,   \* clearInterval / setInterval calls: [op, id]
  pressed,    \* key combos handed to keybindingService.simulateKeyPress
  errors,     \* console.error calls of keybindingService.simulateKeyPress
  returned,   \* results of GestureDetector.processFrame calls: Null or ArrayOf(n)
  \* observation of the input
  noneRun,    \* consecutive latest frames without a recognised gesture (capped)
  frameLog,   \* observed run: the classification of each frame
  emitLog,    \* observed run: [type, at] of each stable event, at = frame number
  \* a GestureDetector.processFrame call that has set the guard and not yet
  \* reached its finally block: <<the frame it is working on>>, else <<>>
  inFlight,
  \* 'simulateKeyPress' requests the renderer has sent with
  \* ipcRenderer.invoke and the main process has not handled yet: the key
  \* combos, oldest first
  ipcQueue,
  \* RobotService, main process: the last 'simulateKeyPress' request
  pulseKey,   \* the key argument, a string as the sequence of its characters
              \* (<<>> when there has been no request)
  robotCalls, \* the robot calls it made, in order: [call, key]
  ipcResult,  \* <<what the handler returned>>, <<>> before the first request
  leftDown,   \* keys it toggled down and did not toggle up again
  \* detectGesture: <<the landmarks of the last hand classified>> and
  \* <<the result>>, <<>> before the first
  landmarks, classified

storeVars == <<activeProfile, profiles, keybindings, isGestureServiceActive>>
serviceVars == <<activeGesture, activeKeyInterval, activeBindings, isServiceActive, timers>>
detectorVars == <<isProcessing, lastGesture, gestureHistory>>
stepVars == <<emitted, hgdCalls, timerOps, pressed, errors, returned>>
obsVars == <<noneRun, frameLog, emitLog>>
robotVars == <<pulseKey, robotCalls, ipcResult, leftDown>>
classifierVars == <<landmarks, classified>>
unitVars == <<inFlight, ipcQueue, robotVars, classifierVars>>
vars == <<storeVars, serviceVars, detectorVars, stepVars, obsVars, unitVars>>

\* ------------------------------------------------------- the mutable world
\* The fields a frame or a store operation reads and writes, as one record,
\* so that the methods below compose as functions.
World ==
  [ activeGesture |-> activeGesture, activeKeyInterval |-> activeKeyInterval,
    activeBindings |-> activeBindings, isServiceActive |-> isServiceActive,
    timers |-> timers,
    isProcessing |-> isProcessing, lastGesture |-> lastGesture,
    gestureHistory |-> gestureHistory,
    emitted |-> <<>>, hgdCalls |-> <<>>, timerOps |-> <<>>,
    pressed |-> <<>>, errors |-> <<>>, returned |-> <<>> ]

Commit(w) ==
  /\ activeGesture' = w.activeGesture
  /\ activeKeyInterval' = w.activeKeyInterval
  /\ activeBindings' = w.activeBindings
  /\ isServiceActive' = w.isServiceActive
  /\ timers' = w.timers
  /\ isProcessing' = w.isProcessing
  /\ lastGesture' = w.lastGesture
  /\ gestureHistory' = w.gestureHistory
  /\ emitted' = w.emitted
  /\ hgdCalls' = w.hgdCalls
  /\ timerOps' = w.timerOps
  /\ pressed' = w.pressed
  /\ errors' = w.errors
  /\ returned' = w.returned

\* Map.set
MapSet(m, k, v) == [x \in (DOMAIN m) \cup {k} |-> IF x = k THEN v ELSE m[x]]
\* new Map()
EmptyMap == [x \in {} |-> Null]

\* ------------------------------------------------- GestureDetectionService
\* clearInterval(id): the runtime drops the timer
ClearInterval(w, id) ==
  [w EXCEPT !.timers = {t \in @ : t.id # id},
            !.timerOps = Append(@, [op |-> "clear", id |-> id])]

\* setInterval(() => simulateKeyPress(binding.keyBinding), 100): a new live
\* timer whose closure holds the binding object; handles are opaque, the
\* model takes the least one not in use
FreshTimerId(w) ==
  LET used == {t.id : t \in w.timers}
  IN CHOOSE n \in 1..(Cardinality(used) + 1) :
       n \notin used /\ \A m \in 1..(n - 1) : m \in used

SetInterval(w, binding) ==
  LET id == FreshTimerId(w)
  IN [w EXCEPT !.timers = @ \cup {[id |-> id, binding |-> binding]},
               !.timerOps = Append(@, [op |-> "set", id |-> id]),
               !.activeKeyInterval = id]

StopGestureKeyPress_NoClear(w) ==
  [w EXCEPT !.activeKeyInterval = NoTimer, !.activeGesture = Null]

StopGestureKeyPress(w) ==
  IF w.activeKeyInterval # NoTimer
    THEN [ClearInterval(w, w.activeKeyInterval) EXCEPT
            !.activeKeyInterval = NoTimer, !.activeGesture = Null]
    ELSE [w EXCEPT !.activeGesture = Null]

RECURSIVE SetEnabledBindings(_, _, _)
SetEnabledBindings(m, bindings, i) ==
  IF i > Len(bindings) THEN m
  ELSE SetEnabledBindings(
         IF bindings[i].enabled THEN MapSet(m, bindings[i].gesture, bindings[i]) ELSE m,
         bindings, i + 1)

UpdateActiveBindings(w, bindings) ==
  [w EXCEPT !.activeBindings = SetEnabledBindings(EmptyMap, bindings, 1)]

Start(w) == [w EXCEPT !.isServiceActive = TRUE]

Stop_FlagOnly(w) == [w EXCEPT !.isServiceActive = FALSE]

Stop(w) == StopGestureKeyPress([w EXCEPT !.isServiceActive = FALSE])

\* destroy(): stop(), then activeBindings.clear()
Destroy(w) == [Stop(w) EXCEPT !.activeBindings = EmptyMap]

HandleGestureDetected_Restart(w, gesture, hand) ==
  IF ~w.isServiceActive THEN w
  ELSE LET s == StopGestureKeyPress(w)
       IN IF gesture = Null THEN s
          ELSE IF gesture \notin DOMAIN s.activeBindings THEN s
          ELSE LET binding == s.activeBindings[gesture]
               IN IF binding.hand # "any" /\ binding.hand # hand THEN s
                  ELSE SetInterval([s EXCEPT !.activeGesture = gesture], binding)

HandleGestureDetected_GestureFirst(w, gesture, hand) ==
  IF ~w.isServiceActive THEN w
  ELSE IF gesture = w.activeGesture THEN w
  ELSE LET s == StopGestureKeyPress(w)
       IN IF gesture = Null THEN s
          ELSE IF gesture \notin DOMAIN s.activeBindings THEN s
          ELSE LET binding == s.activeBindings[gesture]
                   g == [s EXCEPT !.activeGesture = gesture]
               IN IF binding.hand # "any" /\ binding.hand # hand THEN g
                  ELSE SetInterval(g, binding)

HandleGestureDetected(w, gesture, hand) ==
  IF ~w.isServiceActive THEN w
  ELSE IF gesture = w.activeGesture THEN w
  ELSE LET s == StopGestureKeyPress(w)
       IN IF gesture = Null THEN s
          ELSE IF gesture \notin DOMAIN s.activeBindings THEN s
          ELSE LET binding == s.activeBindings[gesture]
               IN IF binding.hand # "any" /\ binding.hand # hand THEN s
                  ELSE SetInterval([s EXCEPT !.activeGesture = gesture], binding)

\* ------------------------------------------------------ KeybindingService
\* how the 'simulateKeyPress' request of one actuation ends: the handler
\* returned {success: true}, it returned {success: false, error}, or the
\* invoke promise rejected
ActuationOutcomes == {"ok", "failed", "rejected"}

KeybindingSimulateKeyPress_StopOnFailure(w, keyBinding, outcome) ==
  LET invoked == [w EXCEPT !.pressed = Append(@, keyBinding)]
  IN IF outcome = "ok" THEN invoked
     ELSE StopGestureKeyPress(
            [invoked EXCEPT !.errors = Append(@, "Error simulating key press")])

\* KeybindingService.simulateKeyPress(keyBinding): the request is sent; a
\* failure is logged and nothing is thrown to the caller
KeybindingSimulateKeyPress(w, keyBinding, outcome) ==
  LET invoked == [w EXCEPT !.pressed = Append(@, keyBinding)]
  IN CASE outcome = "ok" -> invoked
       [] outcome = "failed" ->
            [invoked EXCEPT !.errors = Append(@, "Failed to simulate key press")]
       [] outcome = "rejected" ->
            [invoked EXCEPT !.errors = Append(@, "Error simulating key press")]

\* the closure handleGestureDetected gives setInterval
TimerCallback(w, t, outcome) ==
  KeybindingSimulateKeyPress(w, t.binding.keyBinding, outcome)

\* ----------------------------------------------------------- RobotService
\* A key string is the sequence of its characters; the characters of the
\* model are the separator, a lower-case letter and an upper-case letter.
KeyChars == {"+", "c", "K"}

\* String.prototype.toLowerCase
LowerChar(ch) == IF ch = "K" THEN "k" ELSE ch
StringToLowerCase(str) == [i \in 1..Len(str) |-> LowerChar(str[i])]

\* String.prototype.split('+') from character i on, `cur` being the substring
\* collected since the last separator
RECURSIVE SplitPlus(_, _, _)
SplitPlus(str, i, cur) ==
  IF i > Len(str) THEN <<cur>>
  ELSE IF str[i] = "+" THEN <<cur>> \o SplitPlus(str, i + 1, <<>>)
  ELSE SplitPlus(str, i + 1, Append(cur, str[i]))

\* the robot calls RobotService.simulateKeyPress(keyBinding) makes when none
\* of them throws, in order
RobotPlan(keyBinding) ==
  LET keys == SplitPlus(StringToLowerCase(keyBinding), 1, <<>>)
  IN IF Len(keys) > 1
       THEN LET modifiers == SubSeq(keys, 1, Len(keys) - 1)
                mainKey == keys[Len(keys)]
            IN [i \in 1..Len(modifiers) |-> [call |-> "keyToggleDown", key |-> modifiers[i]]]
               \o <<[call |-> "keyTap", key |-> mainKey]>>
               \o [i \in 1..Len(modifiers) |-> [call |-> "keyToggleUp", key |-> modifiers[i]]]
       ELSE <<[call |-> "keyTap", key |-> keyBinding]>>

\* the keys held down after calls i.. of `calls`, `held` being held before:
\* keyToggle(key, 'down') holds the key, keyToggle(key, 'up') and keyTap
\* leave it released
RECURSIVE HeldAfter(_, _, _)
HeldAfter(calls, i, held) ==
  IF i > Len(calls) THEN held
  ELSE HeldAfter(calls, i + 1,
         IF calls[i].call = "keyToggleDown" THEN held \cup {calls[i].key}
         ELSE held \ {calls[i].key})

\* RobotService.simulateKeyPress(keyBinding) when robot call number failAt
\* throws (none throws when failAt is 0): the exception leaves the method at
\* once.  [calls: the robot calls made, threw, leftDown]
RobotSimulateKeyPress(keyBinding, failAt) ==
  LET plan == RobotPlan(keyBinding)
      threw == failAt \in 1..Len(plan)
  IN [ calls |-> IF threw THEN SubSeq(plan, 1, failAt) ELSE plan,
       threw |-> threw,
       leftDown |-> HeldAfter(IF threw THEN SubSeq(plan, 1, failAt - 1) ELSE plan, 1, {}) ]

\* ------------------------------------------- GestureDetectionComponent
\* String.prototype.toLowerCase on a categoryName
ToLowerCase(s) ==
  CASE s = "Left" -> "left"
    [] s = "Right" -> "right"
    [] OTHER -> s

\* data.handedness?.toLowerCase() as ..., then `hand || 'any'`
HandArgument(data) ==
  IF data.handedness = Undefined THEN "any" ELSE ToLowerCase(data.handedness)

\* the callback setupGestureCallback(gesture) registers
GestureCallback(w, gesture, data) ==
  HandleGestureDetected(
    [w EXCEPT !.hgdCalls = Append(@, [gesture |-> gesture, hand |-> HandArgument(data), raw |-> FALSE])],
    gesture, HandArgument(data))

\* the callback registered for 'no_gesture'
NoGestureCallback(w) ==
  HandleGestureDetected(
    [w EXCEPT !.hgdCalls = Append(@, [gesture |-> Null, hand |-> "any", raw |-> FALSE])],
    Null, "any")

\* ------------------------------------------------------- GestureDetector
\* gestureCallbacks after initializeGestureDetection: the eight gesture
\* types and 'no_gesture'
TriggerGestureCallback(w, gestureType, gestureData) ==
  LET e == [w EXCEPT !.emitted = Append(@, [type |-> gestureType, data |-> gestureData])]
  IN IF gestureType \in AllGestureTypes THEN GestureCallback(e, gestureType, gestureData)
     ELSE IF gestureType = "no_gesture" THEN NoGestureCallback(e)
     ELSE e

\* the last n entries of a sequence (slice(-n))
SliceLast(s, n) == IF Len(s) <= n THEN s ELSE SubSeq(s, Len(s) - n + 1, Len(s))

SmoothGestureDetection_NoConsensus(w) ==
  IF Len(w.gestureHistory) < 1 THEN w
  ELSE LET recentGestures == SliceLast(w.gestureHistory, 1)
       IN IF recentGestures[1].type # w.lastGesture
            THEN TriggerGestureCallback(
                   [w EXCEPT !.lastGesture = recentGestures[1].type],
                   recentGestures[1].type, recentGestures[1])
            ELSE w

SmoothGestureDetection_NoEdge(w) ==
  IF Len(w.gestureHistory) < StableWindow THEN w
  ELSE LET recentGestures == SliceLast(w.gestureHistory, StableWindow)
           consistentGesture ==
             \A i \in 1..Len(recentGestures) : recentGestures[i].type = recentGestures[1].type
       IN IF consistentGesture
            THEN TriggerGestureCallback(
                   [w EXCEPT !.lastGesture = recentGestures[1].type],
                   recentGestures[1].type, recentGestures[1])
            ELSE w

SmoothGestureDetection(w) ==
  IF Len(w.gestureHistory) < StableWindow THEN w
  ELSE LET recentGestures == SliceLast(w.gestureHistory, StableWindow)
           consistentGesture ==
             \A i \in 1..Len(recentGestures) : recentGestures[i].type = recentGestures[1].type
       IN IF consistentGesture /\ recentGestures[1].type # w.lastGesture
            THEN TriggerGestureCallback(
                   [w EXCEPT !.lastGesture = recentGestures[1].type],
                   recentGestures[1].type, recentGestures[1])
            ELSE w

UpdateGestureHistory_DropNewest(w, gestures) ==
  IF Len(gestures) > 0
    THEN LET pushed == Append(w.gestureHistory, gestures[1])
             capped == IF Len(pushed) > MaxHistory
                         THEN SubSeq(pushed, 1, MaxHistory) ELSE pushed
         IN SmoothGestureDetection([w EXCEPT !.gestureHistory = capped])
    ELSE w

UpdateGestureHistory_LastSample(w, gestures) ==
  IF Len(gestures) > 0
    THEN LET pushed == Append(w.gestureHistory, gestures[Len(gestures)])
             capped == IF Len(pushed) > MaxHistory THEN Tail(pushed) ELSE pushed
         IN SmoothGestureDetection([w EXCEPT !.gestureHistory = capped])
    ELSE w

UpdateGestureHistory(w, gestures) ==
  IF Len(gestures) > 0
    THEN LET pushed == Append(w.gestureHistory, gestures[1])
             capped == IF Len(pushed) > MaxHistory THEN Tail(pushed) ELSE pushed
         IN SmoothGestureDetection([w EXCEPT !.gestureHistory = capped])
    ELSE w

\* ---- the classifier.  Landmarks are a function from landmark index to
\* [x, y] in thousandths of the normalized image size; confidences are in
\* hundredths.
\* gestureThreshold
GestureThreshold == 80
\* the "touching" distance of detectOkSign
PinchDistance == 50

IsFingerExtended(lm, tipIndex, pipIndex) == lm[tipIndex].y < lm[pipIndex].y

IsThumbExtended(lm) == lm[4].x > lm[2].x

\* the extended flags of thumb, index, middle, ring, pinky (fingers[0..4] of
\* the source are entries 1..5)
GetFingerStates(lm) ==
  << IsThumbExtended(lm), IsFingerExtended(lm, 8, 6), IsFingerExtended(lm, 12, 10),
     IsFingerExtended(lm, 16, 14), IsFingerExtended(lm, 20, 18) >>

\* fingers.filter((f, i) => i not excluded && f.extended).length
ExtendedCount(fingers, excluded) ==
  Cardinality({i \in 1..Len(fingers) : i \notin excluded /\ fingers[i]})

\* {detected, confidence: detected ? high : low}
CheckResult(detected, high, low) ==
  [detected |-> detected, confidence |-> IF detected THEN high ELSE low]

DetectFist(fingers) == CheckResult(ExtendedCount(fingers, {}) = 0, 95, 20)

DetectOpenPalm(fingers) == CheckResult(ExtendedCount(fingers, {}) = 5, 95, 20)

DetectPointing(fingers) ==
  CheckResult(fingers[2] /\ ExtendedCount(fingers, {2}) = 0, 90, 30)

DetectPeaceSign(fingers) ==
  CheckResult(fingers[2] /\ fingers[3] /\ ExtendedCount(fingers, {2, 3}) = 0, 90, 30)

DetectThumbsUp(fingers, lm) ==
  CheckResult(fingers[1] /\ ExtendedCount(fingers, {1}) = 0 /\ lm[4].y < lm[0].y, 90, 30)

DetectThumbsDown(fingers, lm) ==
  CheckResult(fingers[1] /\ ExtendedCount(fingers, {1}) = 0 /\ lm[4].y > lm[0].y, 90, 30)

\* Math.sqrt(dx^2 + dy^2) < 0.05, compared as squares
IsCircle(lm) ==
  (lm[4].x - lm[8].x) * (lm[4].x - lm[8].x) + (lm[4].y - lm[8].y) * (lm[4].y - lm[8].y)
    < PinchDistance * PinchDistance

DetectOkSign_LowConfidence(fingers, lm) ==
  CheckResult(IsCircle(lm) /\ ExtendedCount(fingers, {1, 2}) = 3, 80, 30)

DetectOkSign(fingers, lm) ==
  CheckResult(IsCircle(lm) /\ ExtendedCount(fingers, {1, 2}) = 3, 85, 30)

DetectRockOn(fingers) ==
  CheckResult(fingers[2] /\ fingers[5] /\ fingers[1] /\ ~fingers[3] /\ ~fingers[4], 85, 30)

GestureChecks_OkSignFirst(fingers, lm) ==
  << [type |-> "ok_sign", result |-> DetectOkSign(fingers, lm)],
     [type |-> "fist", result |-> DetectFist(fingers)],
     [type |-> "open_palm", result |-> DetectOpenPalm(fingers)],
     [type |-> "pointing", result |-> DetectPointing(fingers)],
     [type |-> "peace_sign", result |-> DetectPeaceSign(fingers)],
     [type |-> "thumbs_up", result |-> DetectThumbsUp(fingers, lm)],
     [type |-> "thumbs_down", result |-> DetectThumbsDown(fingers, lm)],
     [type |-> "rock_on", result |-> DetectRockOn(fingers)] >>

\* gestureChecks, each with the result of its check
GestureChecks(fingers, lm) ==
  << [type |-> "fist", result |-> DetectFist(fingers)],
     [type |-> "open_palm", result |-> DetectOpenPalm(fingers)],
     [type |-> "pointing", result |-> DetectPointing(fingers)],
     [type |-> "peace_sign", result |-> DetectPeaceSign(fingers)],
     [type |-> "thumbs_up", result |-> DetectThumbsUp(fingers, lm)],
     [type |-> "thumbs_down", result |-> DetectThumbsDown(fingers, lm)],
     [type |-> "ok_sign", result |-> DetectOkSign(fingers, lm)],
     [type |-> "rock_on", result |-> DetectRockOn(fingers)] >>

\* the for loop of detectGesture from check i on; a null return is the
\* record with type Null
RECURSIVE FirstPassing(_, _)
FirstPassing(checks, i) ==
  IF i > Len(checks) THEN [type |-> Null, confidence |-> 0]
  ELSE IF checks[i].result.detected /\ checks[i].result.confidence > GestureThreshold
    THEN [type |-> checks[i].type, confidence |-> checks[i].result.confidence]
    ELSE FirstPassing(checks, i + 1)

\* detectGesture(landmarks, handedness) computed from the landmarks
DetectGestureChecks(lm) ==
  FirstPassing(GestureChecks(GetFingerStates(lm), lm), 1)

\* detectGesture on one hand of the frame: the gesture type of the first
\* check that is detected above the threshold, or null.  The frame gives the
\* outcome (cls); a hand is [hand: categoryName, cls: type or None].
DetectGesture(h) ==
  IF h.cls = None THEN Null ELSE h.cls

\* one entry per hand whose detectGesture is not null; the entry has a `hand`
\* property and no `handedness` property
RECURSIVE ProcessHandLandmarks(_, _)
ProcessHandLandmarks(frame, i) ==
  IF i > Len(frame) THEN <<>>
  ELSE LET gesture == DetectGesture(frame[i])
           rest == ProcessHandLandmarks(frame, i + 1)
       IN IF gesture # Null
            THEN <<[type |-> gesture, hand |-> frame[i].hand, handedness |-> Undefined]>> \o rest
            ELSE rest

\* the array of n samples a processFrame call returns, as logged in
\* `returned`
ArrayOf(n) == <<"array(0)", "array(1)", "array(2)">>[n + 1]

\* isFingerExtended(landmarks, 20, 18) reads landmarks[20].y: a hand with
\* fewer than 21 points makes processHandLandmarks throw a TypeError
FrameThrows(frame) == \E i \in 1..Len(frame) : frame[i].cls = Malformed

\* the try / catch / finally block of processFrame, entered with the guard
\* set: [w: the world after the call, isNull: the call returned null,
\* gestures: the array it returned]
ProcessFrameBody_NoFinally(w, frame) ==
  IF Len(frame) > 0
    THEN IF FrameThrows(frame)
           THEN [w |-> [w EXCEPT !.isProcessing = TRUE, !.returned = Append(@, Null),
                                 !.errors = Append(@, "Error processing frame:")],
                 isNull |-> TRUE, gestures |-> <<>>]
           ELSE LET gestures == ProcessHandLandmarks(frame, 1)
                    u == UpdateGestureHistory(w, gestures)
                IN [w |-> [u EXCEPT !.isProcessing = FALSE, !.returned = Append(@, ArrayOf(Len(gestures)))],
                    isNull |-> FALSE, gestures |-> gestures]
    ELSE [w |-> [w EXCEPT !.isProcessing = FALSE, !.returned = Append(@, Null)],
          isNull |-> TRUE, gestures |-> <<>>]

ProcessFrameBody_ResetOnSuccess(w, frame) ==
  IF Len(frame) > 0
    THEN IF FrameThrows(frame)
           THEN [w |-> [w EXCEPT !.isProcessing = TRUE, !.returned = Append(@, Null),
                                 !.errors = Append(@, "Error processing frame:")],
                 isNull |-> TRUE, gestures |-> <<>>]
           ELSE LET gestures == ProcessHandLandmarks(frame, 1)
                    u == UpdateGestureHistory(w, gestures)
                IN [w |-> [u EXCEPT !.isProcessing = FALSE, !.returned = Append(@, ArrayOf(Len(gestures)))],
                    isNull |-> FALSE, gestures |-> gestures]
    ELSE [w |-> [w EXCEPT !.isProcessing = TRUE, !.returned = Append(@, Null)],
          isNull |-> TRUE, gestures |-> <<>>]

ProcessFrameBody(w, frame) ==
  IF Len(frame) > 0
    THEN IF FrameThrows(frame)
           THEN [w |-> [w EXCEPT !.isProcessing = FALSE, !.returned = Append(@, Null),
                                 !.errors = Append(@, "Error processing frame:")],
                 isNull |-> TRUE, gestures |-> <<>>]
           ELSE LET gestures == ProcessHandLandmarks(frame, 1)
                    u == UpdateGestureHistory(w, gestures)
                IN [w |-> [u EXCEPT !.isProcessing = FALSE, !.returned = Append(@, ArrayOf(Len(gestures)))],
                    isNull |-> FALSE, gestures |-> gestures]
    ELSE [w |-> [w EXCEPT !.isProcessing = FALSE, !.returned = Append(@, Null)],
          isNull |-> TRUE, gestures |-> <<>>]

DetectorProcessFrame_NoGuard(w, frame) ==
  ProcessFrameBody([w EXCEPT !.isProcessing = TRUE], frame)

\* GestureDetector.processFrame (the detector is initialized)
DetectorProcessFrame(w, frame) ==
  IF w.isProcessing
    THEN [w |-> [w EXCEPT !.returned = Append(@, Null)], isNull |-> TRUE, gestures |-> <<>>]
    ELSE ProcessFrameBody([w EXCEPT !.isProcessing = TRUE], frame)

\* results.forEach((gesture) => handleGestureDetected(gesture.type, hand || 'any'))
RECURSIVE ForEachResult(_, _, _)
ForEachResult(w, results, i) ==
  IF i > Len(results) THEN w
  ELSE ForEachResult(
         HandleGestureDetected(
           [w EXCEPT !.hgdCalls =
              Append(@, [gesture |-> results[i].type, hand |-> HandArgument(results[i]), raw |-> TRUE])],
           results[i].type, HandArgument(results[i])),
         results, i + 1)

\* the component's processFrame
ComponentProcessFrame(w, frame) ==
  LET r == DetectorProcessFrame(w, frame)
  IN IF ~r.isNull /\ Len(r.gestures) > 0
       THEN ForEachResult(r.w, r.gestures, 1)
       ELSE r.w

\* ------------------------------------------------------- useGestureStore
\* get().profiles[profile] || []
ProfileBindings(ps, profile) == IF profile \in DOMAIN ps THEN ps[profile] ELSE <<>>

\* profiles[activeProfile].filter((b) => b.id !== id)
RECURSIVE WithoutId(_, _, _)
WithoutId(bindings, id, i) ==
  IF i > Len(bindings) THEN <<>>
  ELSE (IF bindings[i].id # id THEN <<bindings[i]>> ELSE <<>>) \o WithoutId(bindings, id, i + 1)

\* the tail shared by addBinding, updateBinding, deleteBinding, toggleBinding:
\* set({keybindings, profiles}) and updateActiveBindings(updatedBindings)
StoreBindings(updatedBindings) ==
  /\ keybindings' = updatedBindings
  /\ profiles' = MapSet(profiles, activeProfile, updatedBindings)
  /\ Commit(UpdateActiveBindings(World, updatedBindings))
  /\ UNCHANGED <<activeProfile, isGestureServiceActive, obsVars, unitVars>>

SetActiveProfile(profile) ==
  LET bindings == ProfileBindings(profiles, profile)
  IN /\ Commit(Start(UpdateActiveBindings(World, bindings)))
     /\ activeProfile' = profile
     /\ keybindings' = bindings
     /\ UNCHANGED <<profiles, isGestureServiceActive, obsVars, unitVars>>

AddBinding(binding) ==
  StoreBindings(Append(ProfileBindings(profiles, activeProfile), binding))

UpdateBinding(binding) ==
  LET listed == profiles[activeProfile]
  IN StoreBindings([i \in 1..Len(listed) |->
                      IF listed[i].id = binding.id THEN binding ELSE listed[i]])

DeleteBinding(id) ==
  StoreBindings(WithoutId(profiles[activeProfile], id, 1))

ToggleBinding(id) ==
  LET listed == profiles[activeProfile]
  IN StoreBindings([i \in 1..Len(listed) |->
                      IF listed[i].id = id
                        THEN [listed[i] EXCEPT !.enabled = ~listed[i].enabled]
                        ELSE listed[i]])

AddProfile(name) ==
  /\ profiles' = MapSet(profiles, name, <<>>)
  /\ Commit(World)
  /\ UNCHANGED <<activeProfile, keybindings, isGestureServiceActive, obsVars, unitVars>>

\* const { [name]: removedProfile, ...restProfiles } = state.profiles
RestProfiles(ps, name) == [p \in (DOMAIN ps) \ {name} |-> ps[p]]

\* the early return of a default profile is logged in `returned`
DeleteProfile_DefaultsToo(name) ==
  IF name \in {}
    THEN /\ Commit([World EXCEPT !.returned = <<Undefined>>])
         /\ UNCHANGED <<storeVars, obsVars, unitVars>>
    ELSE LET isActiveProfile == activeProfile = name
             newKeybindings == IF isActiveProfile THEN <<>> ELSE keybindings
         IN /\ profiles' = RestProfiles(profiles, name)
            /\ activeProfile' = IF isActiveProfile THEN "Gaming" ELSE activeProfile
            /\ keybindings' = newKeybindings
            /\ Commit(IF isActiveProfile
                        THEN Start(UpdateActiveBindings(Stop(World), newKeybindings))
                        ELSE World)
            /\ UNCHANGED <<isGestureServiceActive, obsVars, unitVars>>

DeleteProfile_NoStop(name) ==
  IF name \in DefaultProfileNames
    THEN /\ Commit([World EXCEPT !.returned = <<Undefined>>])
         /\ UNCHANGED <<storeVars, obsVars, unitVars>>
    ELSE LET isActiveProfile == activeProfile = name
             newKeybindings == IF isActiveProfile THEN <<>> ELSE keybindings
         IN /\ profiles' = RestProfiles(profiles, name)
            /\ activeProfile' = IF isActiveProfile THEN "Gaming" ELSE activeProfile
            /\ keybindings' = newKeybindings
            /\ Commit(IF isActiveProfile
                        THEN Start(UpdateActiveBindings(World, newKeybindings))
                        ELSE World)
            /\ UNCHANGED <<isGestureServiceActive, obsVars, unitVars>>

DeleteProfile(name) ==
  IF name \in DefaultProfileNames
    THEN /\ Commit([World EXCEPT !.returned = <<Undefined>>])
         /\ UNCHANGED <<storeVars, obsVars, unitVars>>
    ELSE LET isActiveProfile == activeProfile = name
             newKeybindings == IF isActiveProfile THEN <<>> ELSE keybindings
         IN /\ profiles' = RestProfiles(profiles, name)
            /\ activeProfile' = IF isActiveProfile THEN "Gaming" ELSE activeProfile
            /\ keybindings' = newKeybindings
            /\ Commit(IF isActiveProfile
                        THEN Start(UpdateActiveBindings(Stop(World), newKeybindings))
                        ELSE World)
            /\ UNCHANGED <<isGestureServiceActive, obsVars, unitVars>>

InitGestureService ==
  /\ Commit(IF isGestureServiceActive
              THEN Start(UpdateActiveBindings(World, ProfileBindings(profiles, activeProfile)))
              ELSE Stop(World))
  /\ UNCHANGED <<storeVars, obsVars, unitVars>>

ToggleGestureService ==
  LET newIsActive == ~isGestureServiceActive
  IN /\ Commit(IF newIsActive THEN Start(World) ELSE Stop(World))
     /\ isGestureServiceActive' = newIsActive
     /\ UNCHANGED <<activeProfile, profiles, keybindings, obsVars, unitVars>>

\* ------------------------------------------------------------------ inputs
\* The bindings the settings screen saves; ids are unique (handleSaveBinding
\* gives a new binding the id Date.now()) and new bindings start enabled.
FistBinding ==
  [id |-> 1, gesture |-> "fist", keyBinding |-> "space", enabled |-> TRUE, hand |-> "any"]
PalmBinding ==
  [id |-> 2, gesture |-> "open_palm", keyBinding |-> "ctrl+c", enabled |-> TRUE, hand |-> "any"]
\* ids of the bindings listed in some profile
UsedIds == UNION {{profiles[p][i].id : i \in 1..Len(profiles[p])} : p \in DOMAIN profiles}
\* ids of the bindings the settings screen lists (the active profile's)
ListedIds == {keybindings[i].id : i \in 1..Len(keybindings)}
NewBindings(pool) == {b \in pool : b.id \notin UsedIds}
\* key combos an edit gives a binding
EditKeys == {"enter"}
\* an edit of a listed binding: same id and enabled flag, key combo edited
EditedBindings ==
  {[keybindings[i] EXCEPT !.keyBinding = k] : i \in 1..Len(keybindings), k \in EditKeys}

\* the hand constraint of a binding, and the hand parameter of
\* handleGestureDetected
HandConstraints == {"left", "right", "any"}
\* the bindings of ServiceSpec: two bindings of one gesture type, each
\* enabled or not and with any hand constraint
ServiceBindings ==
  { [id |-> 1, gesture |-> "fist", keyBinding |-> "space", enabled |-> e, hand |-> h] :
      e \in BOOLEAN, h \in HandConstraints }
  \cup
  { [id |-> 2, gesture |-> "fist", keyBinding |-> "enter", enabled |-> e, hand |-> h] :
      e \in BOOLEAN, h \in HandConstraints }
\* the binding lists of a profile: up to two bindings with distinct ids, in
\* either order
ServiceBindingLists ==
  {<<>>} \cup {<<b>> : b \in ServiceBindings}
         \cup {l \in ServiceBindings \X ServiceBindings : l[1].id # l[2].id}

\* the key strings a binding can carry (the editor does not save an empty
\* one)
KeyStrings == UNION {[1..n -> KeyChars] : n \in 1..MaxKeyLen}

\* a hand of a frame: its categoryName and the outcome of detectGesture
Hands(labels, types) == [hand : labels, cls : types \cup {None}]
\* 0..NumHands hands
FramesOf(labels, types) ==
  UNION {[1..n -> Hands(labels, types)] : n \in 0..NumHands}
\* the frames of Spec: one gesture type
Frames == FramesOf({"Right"}, {"fist"})
\* the frames of SessionSpec: two gesture types
SessionFrames == FramesOf({"Right"}, GestureTypes)
\* the frames of an observed run: at most one hand
SingleHandFrames == {f \in FramesOf(HandLabels, GestureTypes) : Len(f) <= 1}

\* The landmarks of a hand, as far as detectGesture reads them: wrist 0,
\* thumb mcp 2 and tip 4, pip and tip of index (6, 8), middle (10, 12),
\* ring (14, 16), pinky (18, 20).
LandmarksOf(thumbX, thumbY, indexPipY, indexX, middleY, ringY, pinkyY) ==
  [i \in {0, 2, 4, 6, 8, 10, 12, 14, 16, 18, 20} |->
     CASE i = 0 -> [x |-> 500, y |-> 500]
       [] i = 2 -> [x |-> 500, y |-> 480]
       [] i = 4 -> [x |-> thumbX, y |-> thumbY]
       [] i = 6 -> [x |-> indexX, y |-> indexPipY]
       [] i = 8 -> [x |-> indexX, y |-> 500]
       [] i = 10 -> [x |-> 620, y |-> 500]
       [] i = 12 -> [x |-> 620, y |-> middleY]
       [] i = 14 -> [x |-> 640, y |-> 500]
       [] i = 16 -> [x |-> 640, y |-> ringY]
       [] i = 18 -> [x |-> 660, y |-> 500]
       [] i = 20 -> [x |-> 660, y |-> pinkyY]]
\* the hands the classifier is given: thumb tip left or right of its mcp and
\* above, level with or below the wrist; index pip above or below the tip;
\* index tip near the thumb tip, at the touching distance or far from it;
\* tips of middle, ring and pinky above or below their pips
HandLandmarks ==
  { LandmarksOf(thumbX, thumbY, indexPipY, indexX, middleY, ringY, pinkyY) :
      thumbX \in {490, 510}, thumbY \in {480, 500, 520}, indexPipY \in {470, 530},
      indexX \in {500, 540, 600},
      middleY \in {470, 530}, ringY \in {470, 530}, pinkyY \in {470, 530} }

\* frames of at most one hand, always labelled Right
RightHandFrames == {f \in SessionFrames : Len(f) <= 1}

\* the frames of GuardSpec: up to two hands, the first labelled Left and the
\* second Right, each yielding a gesture (the second hand an open palm), no
\* gesture or with too few points
GuardFrames ==
  {f \in FramesOf(HandLabels, GestureTypes \cup {Malformed}) :
     \A i \in 1..Len(f) :
       IF i = 1 THEN f[i].hand = "Left"
                ELSE f[i].hand = "Right" /\ f[i].cls # "fist"}

\* the frames of HandSpec: at most one hand, Left or Right, a fist or nothing
HandFrames == {f \in FramesOf(HandLabels, {"fist"}) : Len(f) <= 1}
\* the fist binding with each hand constraint
HandBindings == {[FistBinding EXCEPT !.hand = h] : h \in HandConstraints}

\* the classification of a frame of at most one hand
FrameClass(frame) == IF Len(frame) = 0 THEN None ELSE frame[1].cls
\* no hand of the frame yields a gesture
Unrecognised(frame) == \A i \in 1..Len(frame) : frame[i].cls = None

\* ------------------------------------------------------------------- Init
InitRenderer ==
  /\ activeProfile = "Gaming"
  /\ profiles = [p \in DefaultProfileNames |-> <<>>]
  /\ keybindings = <<>>
  /\ isGestureServiceActive = FALSE
  /\ activeGesture = Null
  /\ activeKeyInterval = NoTimer
  /\ activeBindings = EmptyMap
  /\ isServiceActive = FALSE
  /\ timers = {}
  /\ isProcessing = FALSE
  /\ lastGesture = Null
  /\ gestureHistory = <<>>
  /\ emitted = <<>>
  /\ hgdCalls = <<>>
  /\ timerOps = <<>>
  /\ pressed = <<>>
  /\ errors = <<>>
  /\ returned = <<>>
  /\ noneRun = 0
  /\ frameLog = <<>>
  /\ emitLog = <<>>
  /\ inFlight = <<>>
  /\ ipcQueue = <<>>

Init ==
  /\ InitRenderer
  /\ pulseKey = <<>>
  /\ robotCalls = <<>>
  /\ ipcResult = <<>>
  /\ leftDown = {}
  /\ landmarks = <<>>
  /\ classified = <<>>

\* ---------------------------------------------------------------- actions
\* one animation frame: the component's processFrame on `frame`
ProcessFrame(frame) ==
  /\ Commit(ComponentProcessFrame(World, frame))
  /\ noneRun' = IF Unrecognised(frame)
                  THEN (IF noneRun < StableWindow THEN noneRun + 1 ELSE noneRun)
                  ELSE 0
  /\ UNCHANGED <<storeVars, unitVars>>

Frame ==
  \E frame \in Frames :
    /\ ProcessFrame(frame)
    /\ UNCHANGED <<frameLog, emitLog>>

SessionFrame ==
  \E frame \in SessionFrames :
    /\ ProcessFrame(frame)
    /\ UNCHANGED <<frameLog, emitLog>>

\* a frame of an observed run: the frame's classification and the stable
\* events it emits are appended to the logs
ObservedFrame ==
  \E frame \in SingleHandFrames :
    /\ Len(frameLog) < MaxFrames
    /\ ProcessFrame(frame)
    /\ frameLog' = Append(frameLog, FrameClass(frame))
    /\ emitLog' = emitLog \o
         [i \in 1..Len(emitted') |-> [type |-> emitted'[i].type, at |-> Len(frameLog) + 1]]

\* one firing of a live interval timer
Tick ==
  \E t \in timers, outcome \in ActuationOutcomes :
    /\ Commit(TimerCallback(World, t, outcome))
    /\ UNCHANGED <<storeVars, obsVars, unitVars>>

\* the settings screen
SwitchProfile == \E profile \in DOMAIN profiles : SetActiveProfile(profile)
SaveNewBinding == \E binding \in NewBindings({FistBinding}) : AddBinding(binding)
SaveEditedBinding == \E binding \in EditedBindings : UpdateBinding(binding)
RemoveBinding == \E id \in ListedIds : DeleteBinding(id)
FlipBinding == \E id \in ListedIds : ToggleBinding(id)
CreateProfile == \E name \in ProfileNames : AddProfile(name)
RemoveProfile == \E name \in ProfileNames : DeleteProfile(name)

Next ==
  \/ Frame
  \/ Tick
  \/ SwitchProfile
  \/ SaveNewBinding
  \/ SaveEditedBinding
  \/ RemoveBinding
  \/ FlipBinding
  \/ CreateProfile
  \/ RemoveProfile
  \/ InitGestureService
  \/ ToggleGestureService

\* every store operation, frames of one gesture type, one binding
Spec == Init /\ [][Next]_vars

\* the settings screen with two bindings, in the Gaming profile
SessionSwitchProfile == SetActiveProfile("Gaming")
SessionSaveNewBinding ==
  \E binding \in NewBindings({FistBinding, PalmBinding}) : AddBinding(binding)

SessionNext ==
  \/ SessionFrame
  \/ Tick
  \/ SessionSwitchProfile
  \/ SessionSaveNewBinding
  \/ RemoveBinding
  \/ FlipBinding

\* sessions for two bound gestures: frames of two gesture types, two bindings
SessionSpec == Init /\ [][SessionNext]_vars

\* the detector observed from a fresh start for MaxFrames frames
StabNext == ObservedFrame

StabSpec == Init /\ [][StabNext]_vars

\* An observed run of the whole pipeline: before the first frame the
\* settings screen may save the fist binding and select the profile (which
\* starts the service); then frames and timer ticks only.
RunSaveBinding == frameLog = <<>> /\ SaveNewBinding
RunSwitchProfile == frameLog = <<>> /\ SessionSwitchProfile

RunFrame ==
  \E frame \in RightHandFrames :
    /\ Len(frameLog) < MaxFrames
    /\ ProcessFrame(frame)
    /\ frameLog' = Append(frameLog, FrameClass(frame))
    /\ emitLog' = emitLog \o
         [i \in 1..Len(emitted') |-> [type |-> emitted'[i].type, at |-> Len(frameLog) + 1]]

RunNext ==
  \/ RunSaveBinding
  \/ RunSwitchProfile
  \/ RunFrame
  \/ Tick

RunSpec == Init /\ [][RunNext]_vars

\* The pipeline with a hand-constrained binding: frames of one fist hand
\* labelled Left or Right, the fist binding saved with any hand constraint.
HandFrame ==
  \E frame \in HandFrames :
    /\ ProcessFrame(frame)
    /\ UNCHANGED <<frameLog, emitLog>>

HandSaveBinding == \E binding \in NewBindings(HandBindings) : AddBinding(binding)

HandNext ==
  \/ HandFrame
  \/ Tick
  \/ HandSaveBinding
  \/ SessionSwitchProfile

HandSpec == Init /\ [][HandNext]_vars

\* The renderer and the main process side by side.  A timer tick calls
\* keybindingService.simulateKeyPress, whose ipcRenderer.invoke sends the
\* request before the function suspends at its await;
AsyncTick ==
  \E t \in timers :
    /\ Len(ipcQueue) < MaxInFlight
    /\ Commit(TimerCallback(World, t, "ok"))
    /\ ipcQueue' = Append(ipcQueue, t.binding.keyBinding)
    /\ UNCHANGED <<storeVars, obsVars, inFlight, robotVars, classifierVars>>

\* ... the main process handles the oldest request later: its handler runs
\* robotService.simulateKeyPress on the key combo of the request.
HandleRequest ==
  /\ ipcQueue # <<>>
  /\ Commit(World)
  /\ ipcQueue' = Tail(ipcQueue)
  /\ UNCHANGED <<storeVars, obsVars, inFlight, robotVars, classifierVars>>

AsyncFrame ==
  \E frame \in RightHandFrames :
    /\ ProcessFrame(frame)
    /\ UNCHANGED <<frameLog, emitLog>>

AsyncNext ==
  \/ AsyncFrame
  \/ AsyncTick
  \/ HandleRequest
  \/ SaveNewBinding
  \/ SessionSwitchProfile
  \/ ToggleGestureService

AsyncSpec == Init /\ [][AsyncNext]_vars

\* the settings screen leaves the active profile with the binding list
\* `list` (the shared tail of the four binding operations)
ServiceSaveBindings == \E list \in ServiceBindingLists : StoreBindings(list)

\* a caller of GestureDetectionService.handleGestureDetected(gesture, hand)
ServiceCall ==
  \E gesture \in GestureTypes \cup {Null}, hand \in HandConstraints :
    /\ Commit(HandleGestureDetected(
                [World EXCEPT !.hgdCalls = <<[gesture |-> gesture, hand |-> hand, raw |-> FALSE]>>],
                gesture, hand))
    /\ UNCHANGED <<storeVars, obsVars, unitVars>>

\* the owner of the service disposes of it
ServiceDestroy ==
  /\ Commit(Destroy(World))
  /\ UNCHANGED <<storeVars, obsVars, unitVars>>

ServiceNext ==
  \/ ServiceCall
  \/ Tick
  \/ ServiceSaveBindings
  \/ SessionSwitchProfile
  \/ ToggleGestureService
  \/ ServiceDestroy

\* the detection service driven through its interface, every hand argument
\* and every hand constraint
ServiceSpec == Init /\ [][ServiceNext]_vars

\* A processFrame call seen by a caller that does not wait for it to return
\* (a gesture callback that calls processFrame again runs inside the call):
\* the call passes the guard and sets it,
BeginProcessFrame ==
  \E frame \in GuardFrames :
    /\ ~isProcessing
    /\ Commit([World EXCEPT !.isProcessing = TRUE])
    /\ inFlight' = <<frame>>
    /\ UNCHANGED <<storeVars, obsVars, ipcQueue, robotVars, classifierVars>>

\* ... runs its try block and leaves through finally,
CompleteProcessFrame ==
  /\ isProcessing
  /\ inFlight # <<>>
  /\ Commit(ProcessFrameBody(World, inFlight[1]).w)
  /\ inFlight' = <<>>
  /\ UNCHANGED <<storeVars, obsVars, ipcQueue, robotVars, classifierVars>>

\* ... and meanwhile processFrame is called again
OverlappingProcessFrame ==
  \E frame \in RightHandFrames :
    /\ isProcessing
    /\ Commit(DetectorProcessFrame(World, frame).w)
    /\ UNCHANGED <<storeVars, obsVars, unitVars>>

GuardNext ==
  \/ BeginProcessFrame
  \/ CompleteProcessFrame
  \/ OverlappingProcessFrame

\* the detector alone, with calls that overlap
GuardSpec == Init /\ [][GuardNext]_vars

\* detectGesture on the landmarks of one hand
Classify ==
  \E lm \in HandLandmarks :
    /\ landmarks' = <<lm>>
    /\ classified' = <<DetectGestureChecks(lm)>>
    /\ UNCHANGED <<storeVars, serviceVars, detectorVars, stepVars, obsVars,
                   inFlight, ipcQueue, robotVars>>

ClassifierNext == Classify

\* the classifier alone, on every hand of HandLandmarks
ClassifierSpec == Init /\ [][ClassifierNext]_vars

\* a 'simulateKeyPress' request for any key string has reached the main
\* process
PulseInit ==
  /\ InitRenderer
  /\ pulseKey \in KeyStrings
  /\ robotCalls = <<>>
  /\ ipcResult = <<>>
  /\ leftDown = {}
  /\ landmarks = <<>>
  /\ classified = <<>>

\* the main process handles the request: the handler calls
\* simulateKeyPress(key) and turns an exception into {success: false}
RobotRequest ==
  /\ ipcResult = <<>>
  /\ \E failAt \in 0..Len(RobotPlan(pulseKey)) :
       LET r == RobotSimulateKeyPress(pulseKey, failAt)
       IN /\ robotCalls' = r.calls
          /\ ipcResult' = <<[success |-> ~r.threw]>>
          /\ leftDown' = r.leftDown
          /\ UNCHANGED <<storeVars, serviceVars, detectorVars, stepVars, obsVars,
                         inFlight, ipcQueue, pulseKey, classifierVars>>

PulseNext == RobotRequest

\* the robot service alone: every key string, every point of failure
PulseSpec == PulseInit /\ [][PulseNext]_vars

\* ================================================================ claims
\* the running session was started for binding id
SessionBoundTo(id) == \E t \in timers : t.binding.id = id
\* binding id is listed enabled in the active profile
ListedEnabled(id) == \E i \in 1..Len(keybindings) : keybindings[i].id = id /\ keybindings[i].enabled
\* the types a stable "released" event may carry
ReleaseTypes == {None, "no_gesture"}
\* first frame of the run of equal classifications that ends the log
RECURSIVE RunStart(_, _)
RunStart(log, i) ==
  IF i > 1 /\ log[i - 1] = log[Len(log)] THEN RunStart(log, i - 1) ELSE i
\* frames 1..upto of the log classified as type
FramesOfType(log, type, upto) == {j \in 1..upto : log[j] = type}

\* C1: at any instant at most one key-repeat timer is live, it is the one
\* the service holds the handle of and it belongs to the active gesture;
\* within a step a setInterval that follows an earlier setInterval is
\* separated from it by the clearInterval of the earlier timer; and a tick
\* only actuates the key combo of the live session.
C1_OneSession ==
  /\ Cardinality(timers) <= 1
  /\ \A t \in timers : t.id = activeKeyInterval /\ t.binding.gesture = activeGesture
  /\ (activeKeyInterval # NoTimer) = (timers # {})
  /\ \A i, j \in 1..Len(timerOps) :
       (i < j /\ timerOps[i].op = "set" /\ timerOps[j].op = "set") =>
         \E k \in (i + 1)..(j - 1) : timerOps[k] = [op |-> "clear", id |-> timerOps[i].id]
  /\ \A i \in 1..Len(pressed) : \E t \in timers : t.binding.keyBinding = pressed[i]

\* C1 witness: a step that switched from one bound gesture to another:
\* the old timer was cleared, then the new one was set
C1_Witness ==
  /\ Len(timerOps) >= 2
  /\ timerOps[Len(timerOps) - 1].op = "clear"
  /\ timerOps[Len(timerOps)].op = "set"
  /\ activeGesture = "open_palm"
  /\ Cardinality(timers) = 1

\* C2 (as claimed): in an observed run, when frames i-2..i are the first
\* three of a run of frames classified none and the last stable event
\* emitted before them is not a release, a release event is emitted at
\* frame i.
C2_NoneEmitsRelease ==
  \A i \in 4..Len(frameLog) :
    ( /\ frameLog[i] = None /\ frameLog[i - 1] = None /\ frameLog[i - 2] = None
      /\ frameLog[i - 3] # None
      /\ \E k \in 1..Len(emitLog) :
           /\ emitLog[k].at <= i - 3
           /\ emitLog[k].type \notin ReleaseTypes
           /\ \A m \in (k + 1)..Len(emitLog) : emitLog[m].at > i - 3 )
    => \E k \in 1..Len(emitLog) : emitLog[k].at = i /\ emitLog[k].type \in ReleaseTypes

\* C3 (as claimed, in its finite form): once the held gesture has been
\* released for StableWindow consecutive frames (no hand, or no recognised
\* gesture), the repeat timer is cleared and the controller is idle.  A
\* frame without a recognised gesture changes neither the detector nor the
\* service, so a timer that survives StableWindow such frames survives any
\* number of them.
C3_ReleaseStops ==
  noneRun >= StableWindow => (activeKeyInterval = NoTimer /\ timers = {})

\* C4 (as claimed): deleteBinding or a disabling toggleBinding of the
\* binding the running session is bound to leaves no timer running.
C4_DeleteStops ==
  [][\A id \in ListedIds :
       ( /\ SessionBoundTo(id)
         /\ (DeleteBinding(id) \/ (ListedEnabled(id) /\ ToggleBinding(id))) )
       => (activeKeyInterval' = NoTimer /\ timers' = {})]_vars

\* C5 (as claimed): setActiveProfile to another profile while a session is
\* running leaves no timer of the old profile running.
C5_SwitchStops ==
  [][\A profile \in DOMAIN profiles :
       (timers # {} /\ profile # activeProfile /\ SetActiveProfile(profile))
       => (activeKeyInterval' = NoTimer /\ timers' = {})]_vars

\* C6 (as claimed): in an observed run of 5 frames from a fresh detector
\* whose last 3 frames are classified T (T not none), exactly one stable
\* event for T is emitted, at the third frame of the run of T frames that
\* ends the sequence.
C6_ThirdFrame ==
  (Len(frameLog) = 5 /\ frameLog[5] \in GestureTypes
     /\ frameLog[3] = frameLog[5] /\ frameLog[4] = frameLog[5])
  => LET events == {k \in 1..Len(emitLog) : emitLog[k].type = frameLog[5]}
     IN /\ Cardinality(events) = 1
        /\ \A k \in events : emitLog[k].at = RunStart(frameLog, 5) + 2

\* C7: a stable event is emitted only for a type that occupies the
\* StableWindow most recent history entries; in an observed run every
\* stable event is for the classification of its own frame, which at least
\* StableWindow frames up to it carry (a single flipped frame never does).
C7_NoFlip ==
  /\ \A i \in 1..Len(emitted) :
       /\ Len(gestureHistory) >= StableWindow
       /\ \A j \in (Len(gestureHistory) - StableWindow + 1)..Len(gestureHistory) :
            gestureHistory[j].type = emitted[i].type
  /\ \A k \in 1..Len(emitLog) :
       /\ frameLog[emitLog[k].at] = emitLog[k].type
       /\ Cardinality(FramesOfType(frameLog, emitLog[k].type, emitLog[k].at)) >= StableWindow

\* C7 witness: the run fist, fist, open_palm, fist, fist
C7_Witness ==
  frameLog = <<"fist", "fist", "open_palm", "fist", "fist">>

\* C8 (as claimed): a frame starts or stops a key-repeat timer only when
\* the stabilizer emits a stable event in that frame.
C8_OnlyStable ==
  (hgdCalls # <<>> /\ timerOps # <<>>) => emitted # <<>>

\* C9: while a session runs for gesture G, handleGestureDetected(G, hand)
\* changes nothing for any hand: no clearInterval, no setInterval, same
\* timer handle, same active gesture.
C9_Idempotent ==
  activeKeyInterval # NoTimer =>
    \A hand \in {"left", "right", "any"} :
      HandleGestureDetected(World, activeGesture, hand) = World

\* C9 witness: a frame whose calls all carried the gesture of the session
\* that was already running (the step made no timer call)
C9_Witness ==
  /\ activeKeyInterval # NoTimer
  /\ Len(hgdCalls) >= 2
  /\ \A i \in 1..Len(hgdCalls) : hgdCalls[i].gesture = activeGesture
  /\ timerOps = <<>>

\* C10: in an observed run two consecutively emitted stable events never
\* carry the same gesture type.
C10_EdgeTriggered ==
  \A k \in 1..(Len(emitLog) - 1) : emitLog[k].type # emitLog[k + 1].type

\* C10 witness: two stable events were emitted
C10_Witness ==
  Len(emitLog) >= 2

\* the listed bindings that match a gesture event: enabled, same gesture
\* type, hand constraint 'any' or the event's hand
MatchingIndexes(bindings, gesture, hand) ==
  {i \in 1..Len(bindings) :
     /\ bindings[i].enabled
     /\ bindings[i].gesture = gesture
     /\ bindings[i].hand \in {"any", hand}}
Least(S) == CHOOSE i \in S : \A j \in S : i <= j
\* the step set a timer
StartedSession == \E i \in 1..Len(timerOps) : timerOps[i].op = "set"

\* C11 (as claimed): a handleGestureDetected(gesture, hand) call on the
\* started service that starts a session binds it to the first listed
\* binding that is enabled, has the gesture type and a hand constraint of
\* 'any' or the event's hand; and a call that ends with no session running
\* had no such listed binding.
C11_FirstMatch ==
  \A k \in 1..Len(hgdCalls) :
    LET c == hgdCalls[k]
        m == MatchingIndexes(keybindings, c.gesture, c.hand)
    IN (isServiceActive /\ ~c.raw /\ c.gesture # Null) =>
         IF StartedSession
           THEN m # {} /\ \A t \in timers : t.binding = keybindings[Least(m)]
           ELSE timers = {} => m = {}

\* C12 (as claimed): a handleGestureDetected(gesture, hand) call for the
\* left or the right hand never starts a session bound to a binding
\* constrained to the other hand; and when the list holds an enabled binding
\* of the gesture with hand constraint 'any', the call on the started
\* service leaves a session running for the gesture, for either hand.
C12_HandConstraint ==
  \A k \in 1..Len(hgdCalls) :
    LET c == hgdCalls[k]
    IN (isServiceActive /\ ~c.raw /\ c.gesture # Null /\ c.hand \in {"left", "right"}) =>
         /\ StartedSession => \A t \in timers : t.binding.hand \in {"any", c.hand}
         /\ (\E i \in 1..Len(keybindings) :
               /\ keybindings[i].enabled
               /\ keybindings[i].gesture = c.gesture
               /\ keybindings[i].hand = "any")
            => (timers # {} /\ activeGesture = c.gesture)

\* C13 (as claimed): after a handleGestureDetected(gesture, hand) call on
\* the started service no timer runs for a binding of that gesture whose
\* hand constraint is the other hand: the session a one-hand binding holds
\* is stopped when its gesture is reported for the other hand.
C13_HandChangeStops ==
  \A k \in 1..Len(hgdCalls) :
    LET c == hgdCalls[k]
    IN (isServiceActive /\ ~c.raw /\ c.gesture # Null /\ c.hand \in {"left", "right"}) =>
         \A t \in timers :
           t.binding.gesture = c.gesture => t.binding.hand \in {"any", c.hand}

\* C14 (as claimed): the step that starts a session (sets the repeat timer)
\* also hands the binding's key combo to the key service, before any tick.
C14_ImmediateFirst ==
  StartedSession =>
    \E t \in timers : t.id = activeKeyInterval /\ pressed = <<t.binding.keyBinding>>

\* the segments of the last request's key string
PulseKeys == SplitPlus(StringToLowerCase(pulseKey), 1, <<>>)
Reverse(seq) == [i \in 1..Len(seq) |-> seq[Len(seq) + 1 - i]]
\* every segment names a key
WellFormedCombo == \A i \in 1..Len(PulseKeys) : PulseKeys[i] # <<>>
\* the request was handled without an exception
PulseSucceeded == ipcResult = <<[success |-> TRUE]>>

\* C15 (as claimed): a pulse of a combo with modifiers m1..mk and main key K
\* in which no call throws makes exactly the calls press m1, ..., press mk,
\* tap K, release mk, ..., release m1.
C15_PulseOrder ==
  (PulseSucceeded /\ WellFormedCombo /\ Len(PulseKeys) > 1) =>
    LET modifiers == SubSeq(PulseKeys, 1, Len(PulseKeys) - 1)
        released == Reverse(modifiers)
    IN robotCalls =
         [i \in 1..Len(modifiers) |-> [call |-> "keyToggleDown", key |-> modifiers[i]]]
         \o <<[call |-> "keyTap", key |-> PulseKeys[Len(PulseKeys)]]>>
         \o [i \in 1..Len(released) |-> [call |-> "keyToggleUp", key |-> released[i]]]

\* C16: a tick whose key actuation fails (the handler answers success:
\* false, or the request is rejected) only logs the failure: the service
\* keeps its active gesture, timer handle, live timer and bindings; and
\* every tick, also one after a failure, hands the key combo of the live
\* timer's binding to the key service once.
C16_FailureIsolated ==
  [][ /\ errors' # <<>> => UNCHANGED <<serviceVars, storeVars, detectorVars>>
      /\ pressed' # <<>> =>
           /\ UNCHANGED serviceVars
           /\ \E t \in timers' :
                t.id = activeKeyInterval' /\ pressed' = <<t.binding.keyBinding>> ]_vars

\* C16 witness: a tick has just failed and the session is still running
C16_Witness ==
  /\ errors # <<>>
  /\ pressed # <<>>
  /\ activeKeyInterval # NoTimer
  /\ \E t \in timers : t.id = activeKeyInterval /\ t.binding.gesture = activeGesture

\* C17 (as claimed): after a handled request for a key or a combo, whether
\* it succeeded or a call threw part-way, no key it toggled down is still
\* held.
C17_NoStuckKeys ==
  (ipcResult # <<>> /\ WellFormedCombo) => leftDown = {}

\* C18: while a processFrame call is in progress (the guard is set), a
\* further processFrame call, whatever its frame, returns null and leaves
\* the gesture history, the last emitted gesture and the guard as they are;
\* it emits nothing and the frame of the call in progress stays the one in
\* flight.
C18_FrameDropped ==
  /\ isProcessing =>
       \A frame \in SessionFrames :
         DetectorProcessFrame(World, frame) =
           [w |-> [World EXCEPT !.returned = <<Null>>], isNull |-> TRUE, gestures |-> <<>>]
  /\ (isProcessing /\ returned # <<>>) => (returned = <<Null>> /\ emitted = <<>>)
  /\ isProcessing = (inFlight # <<>>)

\* C18 witness: a call made while another was in progress has just
\* returned null, and that other call is still in progress with a history
\* that holds samples
C18_Witness ==
  /\ isProcessing
  /\ inFlight # <<>>
  /\ returned = <<Null>>
  /\ Len(gestureHistory) >= StableWindow
  /\ lastGesture # Null

\* the rule table: the gesture type for five finger flags, the thumb tip
\* above / below the wrist and the pinch flag, rules taken in the listed order
RuleTable(thumb, index, middle, ring, pinky, above, below, pinch) ==
  LET n == Cardinality({f \in {<<1, thumb>>, <<2, index>>, <<3, middle>>, <<4, ring>>, <<5, pinky>>} : f[2]})
  IN IF n = 0 THEN "fist"
     ELSE IF n = 5 THEN "open_palm"
     ELSE IF index /\ n = 1 THEN "pointing"
     ELSE IF index /\ middle /\ n = 2 THEN "peace_sign"
     ELSE IF thumb /\ n = 1 /\ above THEN "thumbs_up"
     ELSE IF thumb /\ n = 1 /\ below THEN "thumbs_down"
     ELSE IF pinch /\ middle /\ ring /\ pinky THEN "ok_sign"
     ELSE IF thumb /\ index /\ pinky /\ ~middle /\ ~ring THEN "rock_on"
     ELSE Null
\* the order of the checks
CheckOrder ==
  <<"fist", "open_palm", "pointing", "peace_sign", "thumbs_up", "thumbs_down", "ok_sign", "rock_on">>
\* check number i passes on hand lm
Passes(lm, i) ==
  LET c == GestureChecks(GetFingerStates(lm), lm)[i]
  IN c.result.detected /\ c.result.confidence > 80

\* C19: the checks are taken in the order fist, open_palm, pointing,
\* peace_sign, thumbs_up, thumbs_down, ok_sign, rock_on; the result of
\* detectGesture is the first check that is detected with a confidence above
\* 0.8 (null when none is), and for every hand it is the type the rule
\* table gives for the hand's finger flags, thumb position and pinch flag.
C19_RuleTable ==
  \A k \in 1..Len(landmarks) :
    LET lm == landmarks[k]
        result == classified[k]
        fingers == GetFingerStates(lm)
        passing == {i \in 1..Len(CheckOrder) : Passes(lm, i)}
    IN /\ \A i \in 1..Len(CheckOrder) :
            GestureChecks(fingers, lm)[i].type = CheckOrder[i]
       /\ IF passing = {} THEN result.type = Null
          ELSE /\ result.type = CheckOrder[Least(passing)]
               /\ result.confidence =
                    GestureChecks(fingers, lm)[Least(passing)].result.confidence
       /\ result.type =
            RuleTable(fingers[1], fingers[2], fingers[3], fingers[4], fingers[5],
                      lm[4].y < lm[0].y, lm[4].y > lm[0].y, IsCircle(lm))

\* C19 witness: a hand with all five fingers extended and thumb and index
\* tips touching: open_palm, the earlier check, wins over ok_sign
C19_Witness ==
  \E k \in 1..Len(landmarks) :
    /\ ExtendedCount(GetFingerStates(landmarks[k]), {}) = 5
    /\ IsCircle(landmarks[k])
    /\ classified[k].type = "open_palm"

\* C20: for a hand whose thumb tip and index tip are within the pinch
\* distance and whose middle, ring and pinky are extended, the ok_sign check
\* reports detected with confidence 0.85, above the threshold; no later
\* check (rock_on) gives the result, and the result is ok_sign unless an
\* earlier check passes.
C20_OkSign ==
  \A k \in 1..Len(landmarks) :
    LET lm == landmarks[k]
        fingers == GetFingerStates(lm)
    IN (IsCircle(lm) /\ fingers[3] /\ fingers[4] /\ fingers[5]) =>
         /\ DetectOkSign(fingers, lm) = [detected |-> TRUE, confidence |-> 85]
         /\ DetectOkSign(fingers, lm).confidence > GestureThreshold
         /\ classified[k].type # "rock_on"
         /\ (\A i \in 1..6 : ~Passes(lm, i)) =>
              classified[k] = [type |-> "ok_sign", confidence |-> 85]

\* C20 witness: thumb and index tips at most 0.03 apart, middle, ring and
\* pinky extended, index not extended: classified ok_sign
C20_Witness ==
  \E k \in 1..Len(landmarks) :
    LET lm == landmarks[k]
    IN /\ (lm[4].x - lm[8].x) * (lm[4].x - lm[8].x)
            + (lm[4].y - lm[8].y) * (lm[4].y - lm[8].y) <= 30 * 30
       /\ ExtendedCount(GetFingerStates(lm), {1, 2}) = 3
       /\ ~GetFingerStates(lm)[2]
       /\ classified[k].type = "ok_sign"

\* the type of the last stable event of the observed run, Null before the
\* first
LastStable == IF emitLog = <<>> THEN Null ELSE emitLog[Len(emitLog)].type

\* C21 (as claimed): in a run of right-hand frames with the binding fist ->
\* "space" (hand any) listed and the service started, the repeat timer of
\* the fist binding is live as long as the last stable event is fist, every
\* tick actuates "space", and no timer is live once the last stable event is
\* of another type.
C21_TicksUntilStableChange ==
  (ListedEnabled(1) /\ isServiceActive) =>
    /\ LastStable = "fist" => \E t \in timers : t.binding = FistBinding
    /\ \A i \in 1..Len(pressed) : pressed[i] = "space"
    /\ LastStable \notin {Null, "fist"} => timers = {}

\* a frame of the observed run that yielded a gesture sample
IsRecognisedClass(c) == c # None
RecognisedLog == SelectSeq(frameLog, IsRecognisedClass)

\* C22: after any sequence of single-hand frames the history holds at most
\* 5 samples, and they are the most recently pushed ones in arrival order:
\* the sample types of the history are the last min(5, n) of the n samples
\* pushed so far.
C22_HistoryFifo ==
  LET n == Len(RecognisedLog)
      k == Len(gestureHistory)
  IN /\ k <= MaxHistory
     /\ k = IF n < MaxHistory THEN n ELSE MaxHistory
     /\ \A i \in 1..k : gestureHistory[i].type = RecognisedLog[n - k + i]

\* C22 witness: a sixth sample arrived and evicted the oldest one, of another
\* type than the sample that became the oldest
C22_Witness ==
  /\ Len(RecognisedLog) > MaxHistory
  /\ Len(gestureHistory) = MaxHistory
  /\ RecognisedLog[Len(RecognisedLog) - MaxHistory] # gestureHistory[1].type

\* C28 (as claimed): a tick of a session whose binding is listed in the
\* active profile actuates the key combo the listed binding has now, so
\* after an edit of the key combo the old combo is never actuated again.
C28_EditReResolved ==
  \A t \in timers, i \in 1..Len(keybindings), j \in 1..Len(pressed) :
    keybindings[i].id = t.binding.id => pressed[j] = keybindings[i].keyBinding

\* C29: deleteProfile of a default profile changes nothing in the store or
\* in the detection service, and the three default profiles exist in every
\* reachable state.
C29_DefaultsKept ==
  /\ [](DefaultProfileNames \subseteq DOMAIN profiles)
  /\ [][\A name \in DefaultProfileNames :
          DeleteProfile(name) => UNCHANGED <<storeVars, serviceVars>>]_vars

\* C29 witness: deleteProfile of a default profile has just returned while a
\* session was running, the profile listed a binding and a fourth profile
\* existed
C29_Witness ==
  /\ returned = <<Undefined>>
  /\ timers # {}
  /\ keybindings # <<>>
  /\ "Work" \in DOMAIN profiles

\* C30: deleteProfile of the active non-default profile clears the repeat
\* timer, removes the profile and makes Gaming the active profile with the
\* service started; deleteProfile of a non-default profile that is not
\* active leaves activeProfile, keybindings and the session unchanged.
C30_DeleteProfile ==
  [][\A name \in ProfileNames \ DefaultProfileNames :
       DeleteProfile(name) =>
         /\ name \notin DOMAIN profiles'
         /\ activeProfile = name =>
              /\ timers' = {}
              /\ activeKeyInterval' = NoTimer
              /\ activeGesture' = Null
              /\ activeProfile' = "Gaming"
              /\ isServiceActive'
         /\ activeProfile # name =>
              UNCHANGED <<activeProfile, keybindings, activeGesture,
                          activeKeyInterval, timers>>]_vars

\* C30 witness: the active profile Work, which listed the only binding, was
\* just deleted while its session was running
C30_Witness ==
  /\ "Work" \notin DOMAIN profiles
  /\ \A p \in DOMAIN profiles : profiles[p] = <<>>
  /\ activeProfile = "Gaming"
  /\ isServiceActive
  /\ timers = {}
  /\ hgdCalls = <<>>
  /\ \E i \in 1..Len(timerOps) : timerOps[i].op = "clear"

\* the frame of the processFrame call that completes in this step
Completes(frame) == isProcessing /\ inFlight = <<frame>> /\ inFlight' = <<>>

\* C26: a processFrame call on a frame with a malformed hand (fewer than 21
\* points) returns null after logging the error, emits no stable event,
\* leaves the gesture history and the last emitted gesture as before the
\* frame and resets the guard, so the next frame is processed.
C26_MalformedDiscarded ==
  [][\A frame \in GuardFrames :
       (Completes(frame) /\ FrameThrows(frame)) =>
         /\ returned' = <<Null>>
         /\ emitted' = <<>>
         /\ UNCHANGED <<gestureHistory, lastGesture>>
         /\ ~isProcessing']_vars

\* C26 witness: a call on a malformed frame has just returned through the
\* catch block, with samples in the history and a gesture already emitted
C26_Witness ==
  /\ errors = <<"Error processing frame:">>
  /\ returned = <<Null>>
  /\ ~isProcessing
  /\ Len(gestureHistory) >= StableWindow
  /\ lastGesture # Null

\* C23 (as claimed): the array processHandLandmarks returns for the frame of
\* the call in progress holds one sample per hand of the frame.
C23_SamplePerHand ==
  (inFlight # <<>> /\ ~FrameThrows(inFlight[1])) =>
    Len(ProcessHandLandmarks(inFlight[1], 1)) = Len(inFlight[1])

\* both hands of a two-hand frame yield a gesture
BothYield(frame) ==
  Len(frame) = 2 /\ \A i \in 1..2 : frame[i].cls \in GestureTypes
\* the sample processHandLandmarks makes of hand i of the frame
SampleOf(frame, i) ==
  [type |-> frame[i].cls, hand |-> frame[i].hand, handedness |-> Undefined]
\* the step appends exactly the sample to the history, evicting the oldest
\* entry of a full history
Enters(sample) ==
  LET pushed == Append(gestureHistory, sample)
  IN gestureHistory' = IF Len(pushed) > MaxHistory THEN Tail(pushed) ELSE pushed

NewestSample == gestureHistory[Len(gestureHistory)]

\* C25 (as claimed): the hand handleGestureDetected receives for a gesture
\* is the lower-cased label of the hand that made it (of the frame's sample
\* for a per-frame call, of the stable event's sample for a callback), and
\* a stable fist event of the Left hand starts the session of a fist
\* binding constrained to 'left'.
C25_HandCarried ==
  /\ \A i \in 1..Len(hgdCalls) :
       hgdCalls[i].gesture # Null =>
         hgdCalls[i].hand = ToLowerCase(IF hgdCalls[i].raw THEN NewestSample.hand
                                                           ELSE emitted[1].data.hand)
  /\ ( /\ isServiceActive
       /\ keybindings = <<[FistBinding EXCEPT !.hand = "left"]>>
       /\ emitted # <<>>
       /\ emitted[1].type = "fist"
       /\ emitted[1].data.hand = "Left"
       /\ NewestSample.hand = "Left" )
     => \E t \in timers : t.binding.id = FistBinding.id

\* C27 (as claimed): whenever the main process handles a key request, a
\* session whose binding has the key combo of the request is live: no
\* request of a stopped session is actuated.
C27_NoActuationAfterStop ==
  [][(ipcQueue # <<>> /\ ipcQueue' = Tail(ipcQueue)) =>
       \E t \in timers : t.binding.keyBinding = Head(ipcQueue)]_vars

\* C31 (as claimed): in every reachable store state the keybindings list is
\* the binding list of the active profile.
C31_KeybindingsOfActiveProfile ==
  /\ activeProfile \in DOMAIN profiles
  /\ keybindings = profiles[activeProfile]

\* the enabled bindings of a binding list
EnabledOf(bindings) == {bindings[i] : i \in {j \in 1..Len(bindings) : bindings[j].enabled}}
\* a step of a store operation that changes the active profile or its
\* bindings
ActiveProfileOperation ==
  \/ SwitchProfile
  \/ SaveNewBinding
  \/ SaveEditedBinding
  \/ RemoveBinding
  \/ FlipBinding
  \/ \E name \in ProfileNames \ DefaultProfileNames :
       activeProfile = name /\ DeleteProfile(name)

\* C32 (as claimed): after every store operation that changes the active
\* profile or its bindings, the bindings the detection service holds are
\* exactly the enabled bindings of profiles[activeProfile].
C32_ServiceHoldsEnabled ==
  [][ActiveProfileOperation =>
       {activeBindings'[g] : g \in DOMAIN activeBindings'}
         = EnabledOf(profiles'[activeProfile'])]_vars

\* C33 (as claimed): whenever the store's isGestureServiceActive flag is
\* false the detection service is not started and no key-repeat timer
\* is live.
C33_FlagOffServiceOff ==
  ~isGestureServiceActive => (~isServiceActive /\ timers = {})

\* the clearInterval calls of the step
IsClear(o) == o.op = "clear"
ClearOps == SelectSeq(timerOps, IsClear)

\* C34: the service holds a timer handle exactly when it has an active
\* gesture, the live timers are exactly the timer of that handle (none
\* dangling), and a step that takes the service from an active gesture to
\* Idle calls clearInterval exactly once, on the handle it held.
C34_HandleIffGesture ==
  /\ [](/\ (activeKeyInterval # NoTimer) <=> (activeGesture # Null)
        /\ {t.id : t \in timers} = {activeKeyInterval} \ {NoTimer}
        /\ Cardinality(timers) <= 1)
  /\ [][(activeGesture # Null /\ activeGesture' = Null) =>
          ClearOps' = <<[op |-> "clear", id |-> activeKeyInterval]>>]_vars

\* C34 witness: a handleGestureDetected call has just taken the service
\* from a running session to Idle with one clearInterval
C34_Witness ==
  /\ hgdCalls # <<>>
  /\ Len(ClearOps) = 1
  /\ activeGesture = Null
  /\ activeKeyInterval = NoTimer
  /\ timers = {}
  /\ isServiceActive

\* C35: while the service is not started there is no repeat timer, no
\* handle and no active gesture, no tick has fired in the step that led
\* here, and handleGestureDetected, whatever its arguments, changes nothing.
C35_StoppedIsInert ==
  ~isServiceActive =>
    /\ timers = {}
    /\ activeKeyInterval = NoTimer
    /\ activeGesture = Null
    /\ pressed = <<>>
    /\ \A gesture \in GestureTypes \cup {Null}, hand \in HandConstraints :
         HandleGestureDetected(World, gesture, hand) = World

\* C35 witness: stop has just cleared the timer of a running session, with
\* bindings still held
C35_Witness ==
  /\ ~isServiceActive
  /\ Len(ClearOps) = 1
  /\ hgdCalls = <<>>
  /\ DOMAIN activeBindings # {}

\* a frame in which the first hand holds a fist and the second hand shows
\* an open palm
FistAndPalm(frame) ==
  Len(frame) = 2 /\ frame[1].cls = "fist" /\ frame[2].cls = "open_palm"

\* C36 (as claimed): while a session runs for the fist gesture, a frame in
\* which one hand still holds the fist and a second hand shows an open palm
\* neither clears nor sets a timer: the session's timer stays the live one.
C36_SecondHandIgnored ==
  [][\A frame \in SessionFrames :
       (ProcessFrame(frame) /\ FistAndPalm(frame) /\ activeGesture = "fist") =>
         (timerOps' = <<>> /\ UNCHANGED <<timers, activeGesture>>)]_vars

\* C37 (as claimed): addProfile with the name of an existing profile leaves
\* the binding list of that profile, the store's keybindings and the
\* bindings the service holds unchanged.
C37_AddProfileKeepsExisting ==
  [][\A name \in DOMAIN profiles :
       AddProfile(name) =>
         /\ profiles'[name] = profiles[name]
         /\ UNCHANGED <<keybindings, activeBindings>>]_vars

\* C38: whenever no processFrame call is executing the guard is not set,
\* and every call that passed the guard resets it when it leaves, whether
\* it returns the samples of the frame, returns null for a frame without
\* hands or catches the error of a malformed hand.
C38_GuardReleased ==
  /\ [](inFlight = <<>> => ~isProcessing)
  /\ [][\A frame \in GuardFrames : Completes(frame) => ~isProcessing']_vars

\* C38 witness: a call on a frame without hands has just returned null and
\* released the guard, after earlier calls filled the history
C38_Witness ==
  /\ returned = <<Null>>
  /\ errors = <<>>
  /\ ~isProcessing
  /\ inFlight = <<>>
  /\ Len(gestureHistory) = MaxHistory

====
